---------------------------- MODULE Spec2Model ----------------------------
(***************************************************************************)
(* HistoryManager (src/history_manager.py): a store of HistoryRecord       *)
(* objects, one JSON file "<id>.json" per record in the directory          *)
(* history_dir.                                                            *)
(*                                                                         *)
(* Python values and JSON texts are modelled structurally, so that         *)
(* json.dump / json.load are conversions the checks can refute.  A file is *)
(* the sequence of chunks json.dump has written to it.                     *)
(***************************************************************************)
EXTENDS Integers, Sequences, FiniteSets, TLC

VARIABLES
    parentExists,  \* the parent directory of history_dir exists
    dirExists,  \* history_dir exists on the file system
    disk,       \* the directory: file name -> content (sequence of chunks)
    last,       \* the last completed call: operation, arguments, result
    proc        \* the calls in progress of the concurrent callers

vars == <<parentExists, dirExists, disk, last, proc>>

----------------------------------------------------------------------------
(* Python values                                                           *)

PyNone == [t |-> "NoneType"]
PyStr(s) == [t |-> "str", v |-> s]
PyInt(n) == [t |-> "int", n |-> n]
PyList(xs) == [t |-> "list", elems |-> xs]
PyTuple(xs) == [t |-> "tuple", elems |-> xs]
PySet(xs) == [t |-> "set", elems |-> xs]
\* a dict as the sequence of its items, in insertion order
PyDict(items) == [t |-> "dict", items |-> items]
Item(k, v) == [key |-> k, val |-> v]

----------------------------------------------------------------------------
(* HistoryRecord                                                           *)

\* the dataclass's fields, in declaration order
Fields ==
    <<"id", "query", "status", "created_at", "updated_at",
      "report_file_path", "report_html", "error_message", "metadata">>

FieldNames == {Fields[i] : i \in 1..Len(Fields)}

\* the fields without a default value
RequiredFields == {"id", "query", "status", "created_at", "updated_at"}

OptionalFields == FieldNames \ RequiredFields

HistoryRecord(id, query, status, created_at, updated_at, report_file_path, report_html, error_message, metadata) ==
    [id |-> id, query |-> query, status |-> status,
     created_at |-> created_at, updated_at |-> updated_at,
     report_file_path |-> report_file_path, report_html |-> report_html,
     error_message |-> error_message, metadata |-> metadata]

\* a serializer that writes the required fields only
asdict_required(record) == [i \in 1..5 |-> Item(Fields[i], record[Fields[i]])]

\* asdict(record): the items (field name, value) in declaration order
asdict(record) == [i \in 1..Len(Fields) |-> Item(Fields[i], record[Fields[i]])]

----------------------------------------------------------------------------
(* JSON                                                                    *)

JNull == [j |-> "null"]
JString(s) == [j |-> "string", s |-> s]
JNumber(n) == [j |-> "number", n |-> n]
JArray(xs) == [j |-> "array", elems |-> xs]
\* an object as the sequence of its members, in document order
JObject(ms) == [j |-> "object", members |-> ms]
Member(name, value) == [name |-> name, value |-> value]
\* a value whose text stops before its end
JTruncated == [j |-> "truncated"]

\* json.dump raises TypeError on a value of a type the encoder does not know
RECURSIVE Encodable(_)
Encodable(v) ==
    CASE v.t = "NoneType" -> TRUE
      [] v.t = "int" -> TRUE
      [] v.t = "str" -> TRUE
      [] v.t \in {"list", "tuple"} ->
            \A i \in 1..Len(v.elems) : Encodable(v.elems[i])
      [] v.t = "dict" ->
            \A i \in 1..Len(v.items) :
                /\ v.items[i].key.t \in {"str", "int", "NoneType"}
                /\ Encodable(v.items[i].key)
                /\ Encodable(v.items[i].val)
      [] OTHER -> FALSE

\* the name json gives a dict key: a str as it is, an int as its digits
KeyName(k) ==
    CASE k.t = "str" -> k.v
      [] k.t = "int" -> ToString(k.n)
      [] OTHER -> "null"

\* the JSON text json.dump writes for an encodable value
RECURSIVE JsonDumps(_)
JsonDumps(v) ==
    CASE v.t = "NoneType" -> JNull
      [] v.t = "int" -> JNumber(v.n)
      [] v.t = "str" -> JString(v.v)
      [] v.t \in {"list", "tuple"} ->
            JArray([i \in 1..Len(v.elems) |-> JsonDumps(v.elems[i])])
      [] v.t = "dict" ->
            JObject([i \in 1..Len(v.items) |->
                Member(KeyName(v.items[i].key), JsonDumps(v.items[i].val))])

\* the Python value json.load builds from a JSON text
RECURSIVE JsonLoads(_)
JsonLoads(x) ==
    CASE x.j = "null" -> PyNone
      [] x.j = "number" -> PyInt(x.n)
      [] x.j = "string" -> PyStr(x.s)
      [] x.j = "array" ->
            PyList([i \in 1..Len(x.elems) |-> JsonLoads(x.elems[i])])
      [] x.j = "object" ->
            PyDict([i \in 1..Len(x.members) |->
                Item(PyStr(x.members[i].name), JsonLoads(x.members[i].value))])

----------------------------------------------------------------------------
(* Files                                                                   *)

\* a chunk of a file: the opening brace, one "name": value member of the
\* top-level object, the closing brace, or a top-level value that is no object
OpenChunk == [k |-> "{", v |-> JNull]
CloseChunk == [k |-> "}", v |-> JNull]
MemberChunk(name, value) == [k |-> name, v |-> value]
BareChunk(value) == [k |-> "", v |-> value]

Structural == {"{", "}", ""}

\* the chunks json.dump(asdict(record), f) writes before it returns or raises:
\* the members up to the first value it cannot write, whose name is already
\* written when the value fails
FirstBad(d) ==
    IF \A i \in 1..Len(d) : Encodable(d[i].val) THEN 0
    ELSE CHOOSE i \in 1..Len(d) :
            /\ ~Encodable(d[i].val)
            /\ \A h \in 1..(i - 1) : Encodable(d[h].val)

DumpChunks(d) ==
    LET bad == FirstBad(d)
        n == IF bad = 0 THEN Len(d) ELSE bad - 1
        whole == [i \in 1..n |-> MemberChunk(d[i].key, JsonDumps(d[i].val))]
    IN IF bad = 0 THEN <<OpenChunk>> \o whole \o <<CloseChunk>>
       ELSE <<OpenChunk>> \o whole \o <<MemberChunk(d[bad].key, JTruncated)>>

DumpRaises(d) == FirstBad(d) # 0

\* json.load(f): the value of a complete JSON text; anything else raises
\* JSONDecodeError
IsObjectText(c) ==
    /\ Len(c) >= 2
    /\ c[1] = OpenChunk
    /\ c[Len(c)] = CloseChunk
    /\ \A i \in 2..(Len(c) - 1) : c[i].k \notin Structural /\ c[i].v.j # "truncated"

IsBareText(c) == Len(c) = 1 /\ c[1].k = "" /\ c[1].v.j # "truncated"

LoadRaises(c) == ~IsObjectText(c) /\ ~IsBareText(c)

json_load(c) ==
    IF IsBareText(c) THEN JsonLoads(c[1].v)
    ELSE JsonLoads(JObject([i \in 1..(Len(c) - 2) |-> Member(c[i + 1].k, c[i + 1].v)]))

\* the keyword arguments **data passes: a repeated key keeps its last value
Keys(data) == {data.items[i].key.v : i \in 1..Len(data.items)}

Lookup(data, name) ==
    LET at == {i \in 1..Len(data.items) : data.items[i].key.v = name}
    IN data.items[CHOOSE i \in at : \A h \in at : h <= i].val

\* a dataclass whose every field has a default
InitRaisesAllDefaulted(data) ==
    \/ data.t # "dict"
    \/ ~(Keys(data) \subseteq FieldNames)

\* HistoryRecord(**data) raises TypeError: data is no mapping, a keyword is no
\* field, or a field without a default is missing
InitRaises(data) ==
    \/ data.t # "dict"
    \/ ~(Keys(data) \subseteq FieldNames)
    \/ ~(RequiredFields \subseteq Keys(data))

\* HistoryRecord(**data): the fields given, the others at their default None
FromKwargs(data) ==
    [f \in FieldNames |-> IF f \in Keys(data) THEN Lookup(data, f) ELSE PyNone]

----------------------------------------------------------------------------
(* The file system                                                         *)

\* the components of an id read as a path: an id with a separator has more
\* than one
PathParts(id) ==
    CASE id = "./a" -> <<".", "a">>
      [] id = "../a" -> <<"..", "a">>
      [] OTHER -> <<id>>

\* a file path: history_dir / f"{id}.json".  Path's / drops the components
\* "."; the file system resolves ".." to the parent of history_dir
RecordFile(id) ==
    LET parts == SelectSeq(PathParts(id), LAMBDA x : x # ".")
    IN [stem |-> parts[Len(parts)], ext |-> "json",
        at |-> IF parts[1] = ".." THEN "parent" ELSE "dir"]

\* history_dir.glob("*.json"): the names in the directory that match
GlobJson(fs) ==
    IF fs.dir THEN {n \in DOMAIN fs.files : n.ext = "json" /\ n.at = "dir"} ELSE {}

\* record_file.exists()
Exists(fs, name) == fs.dir /\ name \in DOMAIN fs.files

\* the directory with file name holding content (created or replaced)
WithFile(fs, name, content) ==
    [fs EXCEPT !.files =
        [n \in DOMAIN fs.files \cup {name} |->
            IF n = name THEN content ELSE fs.files[n]]]

\* the directory without file name
WithoutFile(fs, name) ==
    [fs EXCEPT !.files = [n \in DOMAIN fs.files \ {name} |-> fs.files[n]]]

\* the orders in which a scan may enumerate a set of names
Orders(S) ==
    {s \in [1..Cardinality(S) -> S] : \A i, h \in 1..Cardinality(S) : s[i] = s[h] => i = h}

\* the state of the file system as the variables hold it
FS == [dir |-> dirExists, files |-> disk]

----------------------------------------------------------------------------
(* Outcomes: what a try body leaves behind                                 *)

Returns(value, fs) == [exc |-> FALSE, ret |-> value, fs |-> fs]
Raises(fs) == [exc |-> TRUE, ret |-> FALSE, fs |-> fs]

\* an exception that no handler catches reaches the caller
Propagate(body, fallback) == body

\* except Exception as e: print(...); return fallback
Except(body, fallback) ==
    IF body.exc THEN Returns(fallback, body.fs) ELSE body

\* an optional record: <<>> is None
None == <<>>
Some(r) == <<r>>

----------------------------------------------------------------------------
(* Ordering of values                                                      *)

\* the str values of the model in code point order, the order of Python's <
CodePointOrder ==
    <<"2024-01-01", "2024-02-01", "2024-03-01", "2024-04-01", "<h>",
      "a", "b", "c", "completed", "e", "failed", "k", "p.html", "q",
      "running", "v">>

Rank(s) == CHOOSE i \in 1..Len(CodePointOrder) : CodePointOrder[i] = s

\* a < b is defined (no TypeError)
Orderable(a, b) == a.t = b.t /\ a.t \in {"str", "int"}

\* a < b
KeyLess(a, b) == IF a.t = "int" THEN a.n < b.n ELSE Rank(a.v) < Rank(b.v)

\* list.sort(key=..., reverse=...): stable in both directions.  x goes in
\* front of the first element it strictly precedes, behind its equals
InsertSorted(sorted, x, sort_by, reverse) ==
    LET precedes(e) ==
            IF reverse THEN KeyLess(e[sort_by], x[sort_by])
            ELSE KeyLess(x[sort_by], e[sort_by])
        ps == {i \in 1..Len(sorted) : precedes(sorted[i])}
        p == IF ps = {} THEN Len(sorted) + 1
             ELSE CHOOSE i \in ps : \A h \in ps : i <= h
    IN SubSeq(sorted, 1, p - 1) \o <<x>> \o SubSeq(sorted, p, Len(sorted))

RECURSIVE list_sort(_, _, _)
list_sort(records, sort_by, reverse) ==
    IF records = <<>> THEN <<>>
    ELSE InsertSorted(list_sort(SubSeq(records, 1, Len(records) - 1), sort_by, reverse),
                      records[Len(records)], sort_by, reverse)

\* records.sort(key=lambda x: getattr(x, sort_by), ...) raises: AttributeError
\* when the key is computed for a name that is no field, TypeError when two
\* keys that have no order are compared
SortRaises(records, sort_by) ==
    \/ Len(records) >= 1 /\ sort_by \notin FieldNames
    \/ /\ Len(records) >= 2
       /\ \E i, h \in 1..Len(records) :
            i # h /\ ~Orderable(records[i][sort_by], records[h][sort_by])

----------------------------------------------------------------------------
(* The operations of HistoryManager                                        *)

\* json.load(f) followed by HistoryRecord(**data)
DeserializeRaises(c) == LoadRaises(c) \/ InitRaises(json_load(c))
Deserialize(c) == FromKwargs(json_load(c))

\* the prefix of a write that reached the file before an I/O error
Prefix(chunks, cut) ==
    SubSeq(chunks, 1, IF cut < Len(chunks) THEN cut ELSE Len(chunks) - 1)

\* __init__: history_dir.mkdir(exist_ok=True); no parents=True, so
\* FileNotFoundError when the parent directory is missing
mkdir(fs, parent) ==
    IF fs.dir THEN Returns(TRUE, fs)
    ELSE IF ~parent THEN Raises(fs)
    ELSE Returns(TRUE, [fs EXCEPT !.dir = TRUE])

\* save_record's try body.  io names the injected I/O error: "open" fails
\* the open, "write" fails the write after cut chunks
save_try(fs, record, io, cut) ==
    LET record_file == RecordFile(record.id.v)
        chunks == DumpChunks(asdict(record))
    IN IF ~fs.dir \/ io = "open" THEN Raises(fs)
       ELSE IF io = "write" THEN Raises(WithFile(fs, record_file, Prefix(chunks, cut)))
       ELSE IF DumpRaises(asdict(record)) THEN Raises(WithFile(fs, record_file, chunks))
       ELSE Returns(TRUE, WithFile(fs, record_file, chunks))

save_record(fs, record, io, cut) == Except(save_try(fs, record, io, cut), FALSE)

\* get_record's try body
get_try(fs, record_id, io) ==
    LET record_file == RecordFile(record_id)
    IN IF ~Exists(fs, record_file) THEN Returns(None, fs)
       ELSE IF io = "open" THEN Raises(fs)
       ELSE IF DeserializeRaises(fs.files[record_file]) THEN Raises(fs)
       ELSE Returns(Some(Deserialize(fs.files[record_file])), fs)

get_record(fs, record_id, io) == Except(get_try(fs, record_id, io), None)

\* get_all_records's try body; scan is the order in which glob enumerates
get_all_try(fs, sort_by, reverse, scan, io) ==
    LET n == Len(scan)
    IN IF n >= 1 /\ io = "open" THEN Raises(fs)
       ELSE IF \E i \in 1..n : DeserializeRaises(fs.files[scan[i]]) THEN Raises(fs)
       ELSE LET records == [i \in 1..n |-> Deserialize(fs.files[scan[i]])]
            IN IF SortRaises(records, sort_by) THEN Raises(fs)
               ELSE Returns(list_sort(records, sort_by, reverse), fs)

get_all_records(fs, sort_by, reverse, scan, io) ==
    Except(get_all_try(fs, sort_by, reverse, scan, io), <<>>)

\* an unlink without the exists() check: FileNotFoundError for a missing file
delete_try_unchecked(fs, record_id, io) ==
    IF ~Exists(fs, RecordFile(record_id)) \/ io = "unlink" THEN Raises(fs)
    ELSE Returns(TRUE, WithoutFile(fs, RecordFile(record_id)))

\* delete_record's try body
delete_try(fs, record_id, io) ==
    LET record_file == RecordFile(record_id)
    IN IF ~Exists(fs, record_file) THEN Returns(TRUE, fs)
       ELSE IF io = "unlink" THEN Raises(fs)
       ELSE Returns(TRUE, WithoutFile(fs, record_file))

delete_record(fs, record_id, io) == Except(delete_try(fs, record_id, io), FALSE)

\* clear_all_records's try body; the unlink of scan[failAt] fails
\* (failAt = 0: none does)
RECURSIVE Unlinked(_, _, _)
Unlinked(fs, scan, n) ==
    IF n = 0 THEN fs ELSE WithoutFile(Unlinked(fs, scan, n - 1), scan[n])

\* a clear that puts back what it removed when an unlink fails
clear_try_rollback(fs, scan, failAt) ==
    IF failAt \in 1..Len(scan) THEN Raises(fs)
    ELSE Returns(TRUE, Unlinked(fs, scan, Len(scan)))

clear_try(fs, scan, failAt) ==
    IF failAt \in 1..Len(scan) THEN Raises(Unlinked(fs, scan, failAt - 1))
    ELSE Returns(TRUE, Unlinked(fs, scan, Len(scan)))

clear_all_records(fs, scan, failAt) == Except(clear_try(fs, scan, failAt), FALSE)

----------------------------------------------------------------------------
(* Inputs                                                                  *)

\* the record ids callers use
Ids == {"a", "b", "c"}

\* the largest number of chunks an interrupted write leaves in the file
MaxCut == 0

Created(id) ==
    CASE id = "a" -> "2024-01-01"
      [] id = "b" -> "2024-03-01"
      [] id = "c" -> "2024-02-01"
      [] OTHER -> "2024-04-01"

\* the record of a job as it is submitted
Started(id) ==
    HistoryRecord(PyStr(id), PyStr("q"), PyStr("running"), PyStr(Created(id)), PyStr(Created(id)), PyNone, PyNone, PyNone, PyNone)

\* the record of a job that has produced its report
Completed(id) ==
    HistoryRecord(PyStr(id), PyStr("q"), PyStr("completed"), PyStr(Created(id)), PyStr("2024-04-01"), PyStr("p.html"), PyStr("<h>"), PyNone, PyDict(<<Item(PyStr("k"), PyStr("v"))>>))

\* the record of a job that failed and was submitted again under its id
Restarted(id) ==
    HistoryRecord(PyStr(id), PyStr("q"), PyStr("failed"), PyStr("2024-02-01"), PyStr("2024-04-01"), PyNone, PyNone, PyStr("e"), PyNone)

\* a submitted job with caller metadata
Annotated(id, metadata) == [Started(id) EXCEPT !.metadata = metadata]

MetaTuple == PyDict(<<Item(PyStr("k"), PyTuple(<<PyInt(1), PyInt(2)>>))>>)
MetaIntKey == PyDict(<<Item(PyInt(1), PyStr("v"))>>)
MetaSet == PyDict(<<Item(PyStr("k"), PySet(<<PyInt(1)>>))>>)

\* the records callers save
SaveArgs ==
    {Started(id) : id \in Ids}
        \cup {Completed("a"), Restarted("b")}
        \cup {Annotated("a", m) : m \in {MetaTuple, MetaIntKey, MetaSet}}

\* the sort_by arguments: the fields, and a name that is no field
SortArgs == {"status", "created_at", "report_file_path", "metadata", "nope"}

\* files that something other than HistoryManager put into the directory
MemberChunks(names) ==
    LET d == asdict(Started("c"))
        at == {i \in 1..Len(d) : d[i].key \in names}
        pick[n \in 0..Len(d)] ==
            IF n = 0 THEN <<>>
            ELSE IF n \in at THEN Append(pick[n - 1], MemberChunk(d[n].key, JsonDumps(d[n].val)))
            ELSE pick[n - 1]
    IN pick[Len(d)]

ForeignContents ==
    { <<OpenChunk>>,
      <<BareChunk(JArray(<<>>))>>,
      <<OpenChunk>> \o MemberChunks(RequiredFields) \o <<CloseChunk>>,
      <<OpenChunk>> \o MemberChunks(RequiredFields \ {"updated_at"}) \o <<CloseChunk>>,
      <<OpenChunk>> \o MemberChunks(RequiredFields) \o <<MemberChunk("zzz", JNull), CloseChunk>> }

ForeignNames == {RecordFile("c")}

----------------------------------------------------------------------------
(* The state machine: one action per call                                  *)

Call(op) ==
    [op |-> op, record |-> None, id |-> "", sort_by |-> "", reverse |-> FALSE,
     scan |-> <<>>, failAt |-> 0, io |-> "none", raised |-> FALSE, changed |-> FALSE,
     ok |-> FALSE, found |-> None, records |-> <<>>]

\* the call returns (or raises) and leaves the file system as out.fs
Finish(call, out) ==
    /\ dirExists' = out.fs.dir
    /\ disk' = out.fs.files
    /\ last' = [call EXCEPT !.raised = out.exc, !.changed = (out.fs # FS)]
    /\ UNCHANGED <<parentExists, proc>>

\* the files of a directory with earlier records
EarlierFiles ==
    WithFile(WithFile([dir |-> TRUE, files |-> <<>>],
                      RecordFile("a"), DumpChunks(asdict(Completed("a")))),
             RecordFile("b"), DumpChunks(asdict(Started("b")))).files

\* the concurrent callers, and a caller that is in no call
Procs == {1, 2}
Idle ==
    [pc |-> "idle", op |-> "", record |-> None, id |-> "", io |-> "none",
     scan |-> <<>>, offset |-> 0, ok |-> FALSE, found |-> None, records |-> <<>>,
     overlapped |-> FALSE]

Init ==
    /\ parentExists = TRUE
    /\ dirExists = TRUE
    /\ disk = <<>>
    /\ last = Call("init")
    /\ proc = [p \in Procs |-> Idle]

Save(record, io, cut) ==
    \E out \in {save_record(FS, record, io, cut)} :
        Finish([Call("save") EXCEPT !.record = Some(record), !.id = record.id.v,
                    !.io = io, !.ok = out.ret], out)

Get(record_id, io) ==
    /\ io = "open" => Exists(FS, RecordFile(record_id))
    /\ \E out \in {get_record(FS, record_id, io)} :
        Finish([Call("get") EXCEPT !.id = record_id, !.io = io,
                    !.found = IF out.exc THEN None ELSE out.ret], out)

\* an I/O error is injected into the call with the default arguments
GetAll(sort_by, reverse, scan, io) ==
    /\ io = "open" => Len(scan) >= 1 /\ sort_by = "created_at" /\ reverse
    /\ \E out \in {get_all_records(FS, sort_by, reverse, scan, io)} :
        Finish([Call("get_all") EXCEPT !.sort_by = sort_by, !.reverse = reverse,
                    !.scan = scan, !.io = io,
                    !.records = IF out.exc THEN <<>> ELSE out.ret], out)

Delete(record_id, io) ==
    /\ io = "unlink" => Exists(FS, RecordFile(record_id))
    /\ \E out \in {delete_record(FS, record_id, io)} :
        Finish([Call("delete") EXCEPT !.id = record_id, !.io = io, !.ok = out.ret], out)

Clear(scan, failAt) ==
    \E out \in {clear_all_records(FS, scan, failAt)} :
        Finish([Call("clear") EXCEPT !.io = IF failAt = 0 THEN "none" ELSE "unlink",
                    !.scan = scan, !.failAt = failAt, !.ok = out.ret], out)

\* another program writes a file into the directory
EnvWrite(name, content) ==
    /\ dirExists
    /\ Finish(Call("env"), Returns(TRUE, WithFile(FS, name, content)))

Next ==
    \/ \E record \in SaveArgs, io \in {"none", "open", "write"}, cut \in 0..MaxCut :
            Save(record, io, cut)
    \/ \E record_id \in Ids, io \in {"none", "open"} : Get(record_id, io)
    \/ \E sort_by \in SortArgs, reverse \in BOOLEAN, scan \in Orders(GlobJson(FS)),
            io \in {"none", "open"} : GetAll(sort_by, reverse, scan, io)
    \/ \E record_id \in Ids, io \in {"none", "unlink"} : Delete(record_id, io)
    \/ \E scan \in Orders(GlobJson(FS)), failAt \in 0..Cardinality(GlobJson(FS)) :
            Clear(scan, failAt)
    \/ \E name \in ForeignNames, content \in ForeignContents : EnvWrite(name, content)

Spec == Init /\ [][Next]_vars

----------------------------------------------------------------------------
(* Construction: HistoryManager(history_dir), once or again                *)

\* before the first construction: history_dir may be missing, with or
\* without its parent, or be there with earlier records
InitLifecycle ==
    /\ parentExists \in BOOLEAN
    /\ dirExists \in BOOLEAN
    /\ dirExists => parentExists
    /\ disk \in IF dirExists THEN {<<>>, EarlierFiles} ELSE {<<>>}
    /\ last = Call("start")
    /\ proc = [p \in Procs |-> Idle]

\* __init__ has no try: an exception of mkdir reaches the caller
Construct ==
    \E out \in {mkdir(FS, parentExists)} : Finish(Call("init"), out)

\* a HistoryManager has been constructed
Constructed == last.op # "start" /\ ~(last.op = "init" /\ last.raised)

LifecycleArgs == {Started("a"), Restarted("b"), Started("c")}

NextLifecycle ==
    \/ Construct
    \/ /\ Constructed
       /\ \/ \E record \in LifecycleArgs : Save(record, "none", 0)
          \/ \E record_id \in Ids : Get(record_id, "none")
          \/ \E record_id \in Ids : Delete(record_id, "none")

SpecLifecycle == InitLifecycle /\ [][NextLifecycle]_vars

----------------------------------------------------------------------------
(* Callers whose ids hold path separators                                  *)

\* ids as callers may pass them: any str
PathIds == {"a", "b", "./a", "../a"}

PathArgs ==
    {Started("a"), Started("b"), Started("../a"),
     [Completed("a") EXCEPT !.id = PyStr("./a")]}

NextPaths ==
    \/ \E record \in PathArgs : Save(record, "none", 0)
    \/ \E record_id \in PathIds : Get(record_id, "none")
    \/ \E scan \in Orders(GlobJson(FS)) : GetAll("created_at", TRUE, scan, "none")
    \/ \E record_id \in PathIds : Delete(record_id, "none")
    \/ \E scan \in Orders(GlobJson(FS)) : Clear(scan, 0)

SpecPaths == Init /\ [][NextPaths]_vars

----------------------------------------------------------------------------
(* Two concurrent callers, one call each; a step is one system call        *)

\* the bytes a write leaves between the end of the file and its position
HoleChunk == BareChunk(JTruncated)

\* write(chunk) at position pos of a file
WriteAt(content, pos, chunk) ==
    [i \in 1..(IF pos > Len(content) THEN pos ELSE Len(content)) |->
        IF i = pos THEN chunk
        ELSE IF i <= Len(content) THEN content[i]
        ELSE HoleChunk]

\* the records the concurrent callers save
ConcurrentArgs ==
    {Started("a"), Completed("a"), Annotated("a", MetaSet),
     Started("b"), Restarted("b"), [Restarted("b") EXCEPT !.id = PyStr("./a")]}

\* the directory the concurrent callers find: empty, or with earlier records
InitConcurrent ==
    /\ parentExists = TRUE
    /\ dirExists = TRUE
    /\ disk \in {<<>>, EarlierFiles}
    /\ last = Call("init")
    /\ proc = [p \in Procs |-> Idle]

\* another caller is inside a call
Busy(p) == \E q \in Procs \ {p} : proc[q].pc \notin {"idle", "done"}

\* save_record, line 40: open(record_file, 'w') creates or truncates the file
SaveOpen(p, record, io) ==
    /\ proc[p].pc = "idle"
    /\ IF ~dirExists \/ io = "open"
       THEN /\ proc' = [proc EXCEPT ![p] =
                        [@ EXCEPT !.pc = "done", !.op = "save", !.record = Some(record),
                                  !.id = record.id.v, !.io = io, !.ok = FALSE]]
            /\ UNCHANGED disk
       ELSE /\ proc' = [proc EXCEPT ![p] =
                        [@ EXCEPT !.pc = "writing", !.op = "save", !.record = Some(record),
                                  !.id = record.id.v, !.overlapped = Busy(p)]]
            /\ disk' = WithFile(FS, RecordFile(record.id.v), <<>>).files
    /\ UNCHANGED <<parentExists, dirExists, last>>

\* save_record, line 41: json.dump writes the next chunk at the caller's own
\* position; the chunk of a value it cannot encode ends the call
SaveWrite(p) ==
    LET record == proc[p].record[1]
        chunks == DumpChunks(asdict(record))
        pos == proc[p].offset + 1
        f == RecordFile(record.id.v)
    IN /\ proc[p].pc = "writing"
       /\ pos <= Len(chunks)
       /\ disk' = WithFile(FS, f, WriteAt(disk[f], pos, chunks[pos])).files
       /\ proc' = [proc EXCEPT ![p] =
                    [@ EXCEPT !.offset = pos,
                              !.overlapped = @ \/ Busy(p),
                              !.pc = IF chunks[pos].v = JTruncated THEN "done" ELSE "writing",
                              !.ok = FALSE]]
       /\ UNCHANGED <<parentExists, dirExists, last>>

\* save_record, lines 41-42: the with block closes the file, return True
SaveClose(p) ==
    /\ proc[p].pc = "writing"
    /\ proc[p].offset = Len(DumpChunks(asdict(proc[p].record[1])))
    /\ proc' = [proc EXCEPT ![p] = [@ EXCEPT !.pc = "done", !.ok = TRUE]]
    /\ UNCHANGED <<parentExists, dirExists, disk, last>>

NextConcurrent ==
    \/ \E p \in Procs, record \in ConcurrentArgs, io \in {"none", "open"} :
            SaveOpen(p, record, io)
    \/ \E p \in Procs : SaveWrite(p)
    \/ \E p \in Procs : SaveClose(p)

SpecConcurrent == InitConcurrent /\ [][NextConcurrent]_vars

----------------------------------------------------------------------------
(* Concurrent Delete and Clear                                             *)

\* delete_record, line 81: record_file.exists()
DeleteCheck(p, record_id) ==
    /\ proc[p].pc = "idle"
    /\ proc' = [proc EXCEPT ![p] =
                [@ EXCEPT !.op = "delete", !.id = record_id, !.overlapped = Busy(p),
                          !.pc = IF Exists(FS, RecordFile(record_id)) THEN "unlinking" ELSE "done",
                          !.ok = ~Exists(FS, RecordFile(record_id))]]
    /\ UNCHANGED <<parentExists, dirExists, disk, last>>

\* delete_record, lines 82-86: record_file.unlink() raises FileNotFoundError
\* when the file is gone by now, OSError when the I/O error io is injected
DeleteUnlink(p, io) ==
    LET record_file == RecordFile(proc[p].id)
        gone == ~Exists(FS, record_file)
    IN /\ proc[p].pc = "unlinking"
       /\ io = "unlink" => ~gone
       /\ disk' = IF gone \/ io = "unlink" THEN disk ELSE WithoutFile(FS, record_file).files
       /\ proc' = [proc EXCEPT ![p] =
                    [@ EXCEPT !.pc = "done", !.io = io, !.overlapped = @ \/ Busy(p),
                              !.ok = ~(gone \/ io = "unlink")]]
       /\ UNCHANGED <<parentExists, dirExists, last>>

\* clear_all_records, line 91: glob lists the directory
ClearScan(p, scan) ==
    /\ proc[p].pc = "idle"
    /\ proc' = [proc EXCEPT ![p] =
                [@ EXCEPT !.op = "clear", !.scan = scan, !.pc = "clearing",
                          !.overlapped = Busy(p)]]
    /\ UNCHANGED <<parentExists, dirExists, disk, last>>

\* clear_all_records, line 92: file.unlink() of the next listed file
ClearUnlink(p) ==
    LET file == proc[p].scan[proc[p].offset + 1]
        gone == ~Exists(FS, file)
    IN /\ proc[p].pc = "clearing"
       /\ proc[p].offset < Len(proc[p].scan)
       /\ disk' = IF gone THEN disk ELSE WithoutFile(FS, file).files
       /\ proc' = [proc EXCEPT ![p] =
                    [@ EXCEPT !.offset = @ + 1, !.overlapped = @ \/ Busy(p),
                              !.pc = IF gone THEN "done" ELSE "clearing",
                              !.ok = FALSE]]
       /\ UNCHANGED <<parentExists, dirExists, last>>

\* clear_all_records, line 93: return True
ClearReturn(p) ==
    /\ proc[p].pc = "clearing"
    /\ proc[p].offset = Len(proc[p].scan)
    /\ proc' = [proc EXCEPT ![p] = [@ EXCEPT !.pc = "done", !.ok = TRUE]]
    /\ UNCHANGED <<parentExists, dirExists, disk, last>>

\* the ids the concurrent callers delete
DeleteArgs == {"a", "b"}

NextDeleters ==
    \/ \E p \in Procs, record_id \in DeleteArgs : DeleteCheck(p, record_id)
    \/ \E p \in Procs, io \in {"none", "unlink"} : DeleteUnlink(p, io)
    \/ \E p \in Procs, scan \in Orders(GlobJson(FS)) : ClearScan(p, scan)
    \/ \E p \in Procs : ClearUnlink(p)
    \/ \E p \in Procs : ClearReturn(p)

SpecDeleters == InitConcurrent /\ [][NextDeleters]_vars

----------------------------------------------------------------------------
(* Get and GetAll concurrent with Save                                     *)

\* get_record, lines 51-52: record_file.exists()
GetCheck(p, record_id) ==
    /\ proc[p].pc = "idle"
    /\ proc' = [proc EXCEPT ![p] =
                [@ EXCEPT !.op = "get", !.id = record_id, !.overlapped = Busy(p),
                          !.pc = IF Exists(FS, RecordFile(record_id)) THEN "reading" ELSE "done"]]
    /\ UNCHANGED <<parentExists, dirExists, disk, last>>

\* get_record, lines 54-59: open, json.load of what the file holds now,
\* HistoryRecord(**data)
GetRead(p) ==
    /\ proc[p].pc = "reading"
    /\ proc' = [proc EXCEPT ![p] =
                [@ EXCEPT !.pc = "done", !.overlapped = @ \/ Busy(p),
                          !.found = get_record(FS, proc[p].id, "none").ret]]
    /\ UNCHANGED <<parentExists, dirExists, disk, last>>

\* get_all_records, line 65: glob lists the directory (default arguments)
GetAllScan(p, scan) ==
    /\ proc[p].pc = "idle"
    /\ proc' = [proc EXCEPT ![p] =
                [@ EXCEPT !.op = "get_all", !.scan = scan, !.pc = "scanning",
                          !.overlapped = Busy(p)]]
    /\ UNCHANGED <<parentExists, dirExists, disk, last>>

\* get_all_records, lines 66-68: open and load the next listed file; an
\* exception ends the call with []
GetAllRead(p) ==
    LET file == proc[p].scan[proc[p].offset + 1]
        fails == ~Exists(FS, file) \/ DeserializeRaises(disk[file])
    IN /\ proc[p].pc = "scanning"
       /\ proc[p].offset < Len(proc[p].scan)
       /\ proc' = [proc EXCEPT ![p] =
                    [@ EXCEPT !.offset = @ + 1, !.overlapped = @ \/ Busy(p),
                              !.pc = IF fails THEN "done" ELSE "scanning",
                              !.records = IF fails THEN <<>>
                                          ELSE Append(@, Deserialize(disk[file]))]]
       /\ UNCHANGED <<parentExists, dirExists, disk, last>>

\* get_all_records, lines 71-75: sort by created_at, newest first, and return
GetAllSort(p) ==
    /\ proc[p].pc = "scanning"
    /\ proc[p].offset = Len(proc[p].scan)
    /\ proc' = [proc EXCEPT ![p] =
                [@ EXCEPT !.pc = "done",
                          !.records = IF SortRaises(@, "created_at") THEN <<>>
                                      ELSE list_sort(@, "created_at", TRUE)]]
    /\ UNCHANGED <<parentExists, dirExists, disk, last>>

\* the records saved over the stored ones while readers read
OverwriteArgs == {Started("a"), Restarted("b")}

InitReaders ==
    /\ parentExists = TRUE
    /\ dirExists = TRUE
    /\ disk = EarlierFiles
    /\ last = Call("init")
    /\ proc = [p \in Procs |-> Idle]

NextReaders ==
    \/ \E p \in Procs, record \in OverwriteArgs : SaveOpen(p, record, "none")
    \/ \E p \in Procs : SaveWrite(p)
    \/ \E p \in Procs : SaveClose(p)
    \/ \E p \in Procs, record_id \in DeleteArgs : GetCheck(p, record_id)
    \/ \E p \in Procs : GetRead(p)
    \/ \E p \in Procs, scan \in Orders(GlobJson(FS)) : GetAllScan(p, scan)
    \/ \E p \in Procs : GetAllRead(p)
    \/ \E p \in Procs : GetAllSort(p)

SpecReaders == InitReaders /\ [][NextReaders]_vars

----------------------------------------------------------------------------
(* Notions the claims use                                                  *)

\* a value JSON holds as it is: None, int, str, a list of such values, a
\* dict from str to such values
RECURSIVE NativeValue(_)
NativeValue(v) ==
    CASE v.t \in {"NoneType", "int", "str"} -> TRUE
      [] v.t = "list" -> \A i \in 1..Len(v.elems) : NativeValue(v.elems[i])
      [] v.t = "dict" ->
            \A i \in 1..Len(v.items) :
                v.items[i].key.t = "str" /\ NativeValue(v.items[i].val)
      [] OTHER -> FALSE

JsonNative(record) == \A f \in FieldNames : NativeValue(record[f])

\* the member names of a file's top-level object
MemberNames(c) == {c[i].k : i \in 2..(Len(c) - 1)}

\* the file holds a JSON object with the fields of a HistoryRecord: every
\* required field, and no name that is no field
IsRecordText(c) ==
    /\ IsObjectText(c)
    /\ MemberNames(c) \subseteq FieldNames
    /\ RequiredFields \subseteq MemberNames(c)

\* the files of the directory that hold a record
RecordFiles(fs) == {n \in GlobJson(fs) : IsRecordText(fs.files[n])}

\* what a Get of record_id returns in file system fs
Stored(fs, record_id) == get_record(fs, record_id, "none").ret

----------------------------------------------------------------------------
(* C1: round trip                                                          *)

\* C1, as claimed: if Save(r) returns true, the next Get(r.id) returns a
\* record equal to r in all nine fields (read for a Get that meets no I/O
\* error of its own).
C1_RoundTrip ==
    [][(/\ last.op = "save" /\ last.ok
        /\ last'.op = "get" /\ last'.id = last.id /\ last'.io = "none")
            => last'.found = last.record]_vars

\* C1, amended: the same for every record whose nine values are values JSON
\* holds as they are (no tuple, no dict key that is not a str).
C1_RoundTripNative ==
    [][(/\ last.op = "save" /\ last.ok /\ JsonNative(last.record[1])
        /\ last'.op = "get" /\ last'.id = last.id /\ last'.io = "none")
            => last'.found = last.record]_vars

\* a Get has returned a saved record whose optional fields and metadata are set
C1_Witness ==
    last.op = "get" /\ last.io = "none" /\ last.found = Some(Completed("a"))

----------------------------------------------------------------------------
(* C2: overwrite                                                           *)

\* C2, as claimed: after Save(r1) and Save(r2) with the same id X have both
\* returned true, Get(X) returns exactly r2, the directory holds exactly one
\* file for X, and GetAll contains exactly one record with id X (read for r2
\* a record JSON holds as it is, and GetAll called with its default
\* arguments).
C2_Overwrite ==
    [][(/\ last.op = "save" /\ last.ok
        /\ last'.op = "save" /\ last'.ok /\ last'.id = last.id
        /\ JsonNative(last'.record[1]))
            => /\ Stored(FS', last'.id) = last'.record
               /\ Cardinality({n \in DOMAIN disk' : n.stem = last'.id}) = 1
               /\ \A scan \in Orders(GlobJson(FS')) :
                    LET all == get_all_records(FS', "created_at", TRUE, scan, "none").ret
                    IN Cardinality({i \in 1..Len(all) : all[i].id = PyStr(last'.id)}) = 1]_vars

----------------------------------------------------------------------------
(* C3: GetAll and unreadable files                                         *)

\* C3, as claimed: GetAll returns every record whose file deserializes and
\* omits only the files that do not (read for a call that meets no I/O error
\* and sorts by a required field).
C3_SkipsUnreadable ==
    (last.op = "get_all" /\ last.io = "none" /\ last.sort_by \in RequiredFields)
        => /\ Len(last.records) = Cardinality(RecordFiles(FS))
           /\ \A n \in RecordFiles(FS) :
                \E i \in 1..Len(last.records) : last.records[i] = Deserialize(disk[n])

----------------------------------------------------------------------------
(* C4: a failed Save                                                       *)

\* C4, as claimed: whenever Save(r) returns false, the file for r.id is as it
\* was before the call, and Get(r.id) returns what it returned before.
C4_FailedSaveUnchanged ==
    [][(last'.op = "save" /\ ~last'.ok)
            => LET f == RecordFile(last'.id)
               IN /\ (f \in DOMAIN disk') = (f \in DOMAIN disk)
                  /\ f \in DOMAIN disk => disk'[f] = disk[f]
                  /\ Stored(FS', last'.id) = Stored(FS, last'.id)]_vars

----------------------------------------------------------------------------
(* C5: the order of GetAll                                                 *)

\* C5, as claimed: for every field and both directions GetAll returns each
\* record whose file deserializes exactly once, in the order of the field
\* (non-decreasing ascending, non-increasing descending), records with equal
\* values in the order of the scan (read for a call that meets no I/O error,
\* in a directory whose every file deserializes).
C5_Ordering ==
    (/\ last.op = "get_all" /\ last.io = "none" /\ last.sort_by \in FieldNames
     /\ RecordFiles(FS) = GlobJson(FS))
        => LET res == last.records
               good == {i \in 1..Len(last.scan) : IsRecordText(disk[last.scan[i]])}
               at(r) == CHOOSE i \in good : Deserialize(disk[last.scan[i]]) = r
               key(r) == r[last.sort_by]
           IN /\ Len(res) = Cardinality(good)
              /\ \A i \in good :
                    \E k \in 1..Len(res) : res[k] = Deserialize(disk[last.scan[i]])
              /\ \A i, k \in 1..Len(res) :
                    i < k =>
                        /\ Orderable(key(res[i]), key(res[k]))
                        /\ IF last.reverse THEN ~KeyLess(key(res[i]), key(res[k]))
                           ELSE ~KeyLess(key(res[k]), key(res[i]))
                        /\ key(res[i]) = key(res[k]) => at(res[i]) < at(res[k])

----------------------------------------------------------------------------
(* C6: no operation ends in an exception                                   *)

\* C6: in every reachable state of the directory, with corrupt files and
\* injected I/O errors, Save, Delete and Clear finish with a boolean, Get with
\* a record or None, GetAll with a list of records; no exception reaches the
\* caller.
C6_NoPropagatedFault ==
    /\ ~last.raised
    /\ last.op \in {"save", "delete", "clear"} => last.ok \in BOOLEAN
    /\ last.op = "get" =>
        \/ last.found = None
        \/ Len(last.found) = 1 /\ DOMAIN last.found[1] = FieldNames
    /\ last.op = "get_all" =>
        \A i \in 1..Len(last.records) : DOMAIN last.records[i] = FieldNames

\* a GetAll has met a file that does not deserialize and has returned
C6_Witness ==
    /\ last.op = "get_all" /\ last.io = "none"
    /\ RecordFiles(FS) # GlobJson(FS)
    /\ last.records = <<>>

----------------------------------------------------------------------------
(* C7: Get and absence                                                     *)

\* C7: Get(X) returns None when no file for X exists and when the file does
\* not deserialize as a record; it returns a record only when the file exists
\* and deserializes, and then the optional fields the file does not name are
\* None.
C7_GetAbsence ==
    last.op = "get" =>
        LET f == RecordFile(last.id)
        IN /\ ~Exists(FS, f) => last.found = None
           /\ (Exists(FS, f) /\ ~IsRecordText(disk[f])) => last.found = None
           /\ last.found # None =>
                /\ Exists(FS, f) /\ IsRecordText(disk[f])
                /\ \A g \in OptionalFields \ MemberNames(disk[f]) :
                        last.found[1][g] = PyNone

\* a Get has returned the record of a file that names no optional field
C7_Witness ==
    /\ last.op = "get" /\ last.found # None
    /\ MemberNames(disk[RecordFile(last.id)]) = RequiredFields

----------------------------------------------------------------------------
(* C8: Delete is idempotent                                                *)

\* C8: without an I/O error Delete(X) returns true, whether a file for X
\* existed or not; after it has returned true no file for X exists and Get(X)
\* returns None; a second Delete(X) returns true again and leaves the
\* directory as the first left it.
C8_DeleteIdempotent ==
    [][/\ (last'.op = "delete" /\ last'.io = "none") => last'.ok
       /\ (last'.op = "delete" /\ last'.ok) =>
            /\ RecordFile(last'.id) \notin DOMAIN disk'
            /\ Stored(FS', last'.id) = None
       /\ (last.op = "delete" /\ last.ok /\ last'.op = "get" /\ last'.id = last.id) =>
            last'.found = None
       /\ (/\ last.op = "delete" /\ last.ok
           /\ last'.op = "delete" /\ last'.id = last.id /\ last'.io = "none") =>
            last'.ok /\ disk' = disk /\ dirExists' = dirExists]_vars

\* a Delete has removed a file and returned true
C8_Witness == last.op = "delete" /\ last.ok /\ last.changed

----------------------------------------------------------------------------
(* C9: Clear                                                               *)

\* C9, as claimed: after Clear has returned true, the directory exists and holds no
\* record file; the next GetAll returns the empty list, the next Get returns
\* None for every id, and the next Save of a record json can write, without
\* an I/O error, returns true.
C9_ClearEmpties ==
    [][(last.op = "clear" /\ last.ok) =>
            /\ dirExists /\ GlobJson(FS) = {}
            /\ last'.op = "get_all" => last'.records = <<>>
            /\ last'.op = "get" => last'.found = None
            /\ (/\ last'.op = "save" /\ last'.io = "none"
                /\ ~DumpRaises(asdict(last'.record[1]))) =>
                    last'.ok /\ Stored(FS', last'.id) # None]_vars

----------------------------------------------------------------------------
(* C10: concurrent Saves to distinct ids                                   *)

\* both concurrent Saves have returned true
BothSaved == \A p \in Procs : proc[p].pc = "done" /\ proc[p].ok

\* C10, as claimed: for any interleaving of the steps of Save(a) and Save(b)
\* with a.id # b.id, once both have returned true, Get(a.id) returns a and
\* Get(b.id) returns b (read for records a and b whose nine values are
\* values JSON holds as they are).
C10_DistinctIdsNative ==
    (/\ BothSaved /\ proc[1].record[1].id # proc[2].record[1].id
     /\ \A p \in Procs : JsonNative(proc[p].record[1]))
        => \A p \in Procs : Stored(FS, proc[p].record[1].id.v) = proc[p].record

----------------------------------------------------------------------------
(* C11: concurrent Saves to the same id                                    *)

\* C11, as claimed: for any interleaving of the steps of Save(r1) and
\* Save(r2) with r1.id = r2.id = X, once both have returned, Get(X) returns
\* exactly r1 or exactly r2, never None and never a record that mixes the two
\* (read for Saves that both returned true, of records JSON holds as they
\* are).
C11_LastWriterWins ==
    (/\ BothSaved /\ proc[1].record[1].id = proc[2].record[1].id
     /\ \A p \in Procs : JsonNative(proc[p].record[1]))
        => \E p \in Procs : Stored(FS, proc[p].record[1].id.v) = proc[p].record

----------------------------------------------------------------------------
(* C12: Clear has no rollback                                              *)

\* C12: if an unlink fails partway through Clear, Clear returns false, every
\* file it removed before the failure stays removed (Get of its id returns
\* None), and the files it had not reached keep their content.
C12_ClearNoRollback ==
    [][(last'.op = "clear" /\ last'.io = "unlink") =>
            LET scan == last'.scan
                k == last'.failAt
            IN /\ ~last'.ok
               /\ \A i \in 1..(k - 1) :
                    /\ scan[i] \notin DOMAIN disk'
                    /\ Stored(FS', scan[i].stem) = None
               /\ \A n \in DOMAIN disk :
                    (\A i \in 1..(k - 1) : scan[i] # n) =>
                        n \in DOMAIN disk' /\ disk'[n] = disk[n]
               /\ DOMAIN disk' \subseteq DOMAIN disk]_vars

\* a Clear has removed a file, failed on the next and left a third
C12_Witness ==
    /\ last.op = "clear" /\ ~last.ok /\ last.changed
    /\ last.failAt = 2 /\ Len(last.scan) = 3
    /\ Cardinality(DOMAIN disk) = 2

----------------------------------------------------------------------------
(* C13: the result of Delete under concurrency                             *)

\* C13, as claimed: for any interleaving of Delete(X) with another Delete(X)
\* or with Clear, every Delete(X) that finishes with the file for X absent
\* from the directory returns true.
C13_DeleteResult ==
    [][\A p \in Procs :
        (/\ proc[p].pc # "done" /\ proc'[p].pc = "done" /\ proc'[p].op = "delete"
         /\ ~Exists(FS', RecordFile(proc'[p].id)))
            => proc'[p].ok]_vars

----------------------------------------------------------------------------
(* C14: readers during an overwrite                                        *)

\* the record stored under record_id before the concurrent calls
Earlier(record_id) == Deserialize(EarlierFiles[RecordFile(record_id)])

\* the records a reader may see under record_id: the earlier one, and the one
\* a concurrent Save writes
Whole(p, record_id) ==
    {Earlier(record_id)}
        \cup {proc[q].record[1] : q \in {q \in Procs \ {p} : proc[q].op = "save" /\ proc[q].id = record_id}}

\* C14, as claimed: while a Save(r2) overwrites the record r1 of id X, a
\* concurrent Get(X) returns r1 or r2, never None, and a concurrent GetAll
\* returns r1 or r2 for X and the stored record of every other id.
C14_WholeRecords ==
    \A p \in Procs :
        proc[p].pc = "done" =>
            /\ proc[p].op = "get" =>
                /\ proc[p].found # None
                /\ proc[p].found[1] \in Whole(p, proc[p].id)
            /\ proc[p].op = "get_all" =>
                \A record_id \in DeleteArgs :
                    \E i \in 1..Len(proc[p].records) :
                        proc[p].records[i] \in Whole(p, record_id)

----------------------------------------------------------------------------
(* C15: frame conditions                                                   *)

\* the record stored under every id but record_id is as it was
OthersKept(record_id) ==
    \A X \in (Ids \cup PathIds) \ {record_id} : Stored(FS', X) = Stored(FS, X)

\* C15, as claimed: Get and GetAll leave the set of files and every file's
\* content unchanged; Save(r) and Delete(X) change at most the file of r.id,
\* respectively X, and leave the record stored under every other id
\* unchanged, whether they succeed or fail.
C15_Frame ==
    [][/\ last'.op \in {"get", "get_all"} => disk' = disk /\ dirExists' = dirExists
       /\ last'.op \in {"save", "delete"} =>
            /\ \A n \in (DOMAIN disk \cup DOMAIN disk') \ {RecordFile(last'.id)} :
                    n \in DOMAIN disk /\ n \in DOMAIN disk' /\ disk'[n] = disk[n]
            /\ dirExists' = dirExists
            /\ OthersKept(last'.id)]_vars

----------------------------------------------------------------------------
(* C16: the id is the key                                                  *)

\* C16, as claimed: in every state reached from an empty directory by Save,
\* Delete and Clear, whenever Get(X) returns a record its id is X, and
\* distinct ids are stored in distinct files.
C16_KeyAgreement ==
    /\ \A X \in PathIds :
            Stored(FS, X) # None => Stored(FS, X)[1].id = PyStr(X)
    /\ \A X, Y \in PathIds :
            (X # Y /\ Stored(FS, X) # None /\ Stored(FS, Y) # None)
                => RecordFile(X) # RecordFile(Y)

----------------------------------------------------------------------------
(* C17: construction                                                       *)

\* C17, as claimed: constructing the store on a missing directory creates
\* it; constructing it again on a directory that exists raises no error and
\* leaves every stored record retrievable unchanged; after construction the
\* directory exists before any other operation runs.
C17_InitIdempotent ==
    [][/\ (last'.op = "init" /\ ~dirExists) => (dirExists' /\ ~last'.raised)
       /\ (last'.op = "init" /\ dirExists) =>
            /\ ~last'.raised
            /\ dirExists' /\ disk' = disk
            /\ \A X \in Ids : Stored(FS', X) = Stored(FS, X)
       /\ last'.op \in {"save", "get", "get_all", "delete", "clear"} => dirExists]_vars

----------------------------------------------------------------------------
(* C18: created_at                                                         *)

\* C18, as claimed: the created_at that Get(X) returns after a later
\* successful Save of X is the created_at stored by the first Save of X, for
\* as long as X is not deleted.
C18_CreatedAtImmutable ==
    [][(/\ last.op = "save" /\ last.ok
        /\ last'.op = "save" /\ last'.ok /\ last'.id = last.id
        /\ Stored(FS, last.id) # None /\ Stored(FS', last.id) # None)
            => Stored(FS', last.id)[1].created_at = Stored(FS, last.id)[1].created_at]_vars

============================================================================
